---- MODULE Spec2Model ----
(***************************************************************************)
(* State-machine model of IO::Drivers::Modbus (app/src/IO/Drivers/Modbus). *)
(*                                                                         *)
(* The driver object's fields are the variables m_*; the QTimer it owns is *)
(* pollTimer*; the QModbusClient objects it creates are `clients`, the     *)
(* QModbusReply objects returned by sendReadRequest are `replies`.  Every  *)
(* handler of the class is an operator from a state record to a state      *)
(* record (so that open() can call close(), onStateChanged() can call      *)
(* startPolling(), ...) and one action applies it.  What a handler emits   *)
(* during one call (Qt signals, message boxes, log lines, calls made on    *)
(* the transport client, frames carried by dataReceived) is kept in the    *)
(* per-call outputs, which are cleared when the next handler starts.       *)
(***************************************************************************)
EXTENDS Integers, Sequences, FiniteSets, TLC

\* ------------------------------------------------------------------------
\* Program constants
\* ------------------------------------------------------------------------

\* enum ModbusMode
RTU == 0
TCP == 1

\* m_modbusClient(nullptr)
NoClient == 0

\* constructor defaults
DefaultSlaveAddress == 1
DefaultFunctionCode == 3
DefaultStartAddress == 0
DefaultRegisterCount == 10
DefaultPollInterval == 1000
DefaultTcpHost == "127.0.0.1"

\* limits tested by the setters
MinSlaveAddress == 1
MaxSlaveAddress == 247
MaxRegisterCount == 125
MinPollInterval == 100

\* widths of the setters' parameters (quint8, quint16)
UInt8Mod == 256
UInt16Max == 65535

\* tr("选择串口"), the entry at index 0 of the serial port list
Placeholder == "<select port>"

\* ------------------------------------------------------------------------
\* Bounds of the model
\* ------------------------------------------------------------------------

\* QModbusClient objects alive at once (the held one and those awaiting deletion)
MaxClients == 2
\* QModbusReply objects alive at once
MaxReplies == 2
\* largest slice of time that passes without the poll timer firing
TimeStep == 500

\* ------------------------------------------------------------------------
\* Input domains
\* ------------------------------------------------------------------------

SlaveAddressInputs == {0, 1, 247, 248}
FunctionCodeInputs == {0, 3, 4, 255}
StartAddressInputs == {0, 65535}
RegisterCountInputs == {0, 1, 125, 126}
PollIntervalInputs == {0, 99, 100, 200}
ModeInputs == {RTU, TCP, 2}
HostInputs == <<"", "127.0.0.1">>
SerialIndexInputs == {0, 1, 2}

\* what QSerialPortInfo::availablePorts() can return
PortLists == {<<>>, <<"ttyUSB0">>, <<"ttyUSB1">>, <<"ttyUSB0", "ttyUSB1">>}

\* values a read reply can carry (QModbusReply::result())
ResultSamples == {<<1, 2, 3>>, <<1, 0, 1>>, <<10, 0, 65535>>, <<0>>}

\* QModbusDevice::State
ClientStates == {"Unconnected", "Connecting", "Connected", "Closing"}

\* QModbusDevice::Error, as far as the handlers distinguish it
ErrorInputs == {"NoError", "TimeoutError"}

\* ------------------------------------------------------------------------
\* State
\* ------------------------------------------------------------------------

VARIABLES
  m_modbusClient,     \* NoClient or an index into clients
  m_modbusMode,
  m_slaveAddress,
  m_functionCode,
  m_startAddress,
  m_registerCount,
  m_pollInterval,
  m_tcpHost,
  m_serialPortIndex,
  m_deviceNames,
  pollTimerActive,    \* m_pollTimer->isActive()
  pollTimerInterval,  \* the period m_pollTimer was started with, 0 when inactive
  pollTimerRemaining, \* time until the next timeout, 0 when inactive
  clients,            \* the QModbusClient objects alive, by place; FreeSlot where there is none
  replies,            \* unfinished QModbusReply objects connected to onReadReady
  availablePorts,     \* the operating system's serial ports
  aborted,            \* the process ended on an out-of-range container read
  writes,             \* m_settings keys written by the last handler call
  signals,            \* Qt signals emitted by the last handler call
  msgBoxes,           \* message boxes shown by the last handler call
  logs,               \* qWarning lines of the last handler call
  calls,              \* calls made on a transport client by the last handler call
  frames,             \* payloads of the dataReceived signals of the last call
  reports,            \* states passed to onStateChanged during the last call
  last,               \* the handler called last, its argument, outcome and result
  cfgFailed,          \* history: open() ran in RTU mode without a real port since the last open() that returned true
  linkReport          \* history: the last Connected/Unconnected state reported to onStateChanged

vars ==
  <<m_modbusClient, m_modbusMode, m_slaveAddress, m_functionCode, m_startAddress, m_registerCount, m_pollInterval, m_tcpHost, m_serialPortIndex, m_deviceNames, pollTimerActive, pollTimerInterval, pollTimerRemaining, clients, replies, availablePorts, aborted, writes, signals, msgBoxes, logs, calls, frames, reports, last, cfgFailed, linkReport>>

\* The driver, its timer and the objects it created, as one record.
Cur ==
  [m_modbusClient |-> m_modbusClient, m_modbusMode |-> m_modbusMode, m_slaveAddress |-> m_slaveAddress, m_functionCode |-> m_functionCode, m_startAddress |-> m_startAddress, m_registerCount |-> m_registerCount, m_pollInterval |-> m_pollInterval, m_tcpHost |-> m_tcpHost, m_serialPortIndex |-> m_serialPortIndex, m_deviceNames |-> m_deviceNames, pollTimerActive |-> pollTimerActive, pollTimerInterval |-> pollTimerInterval, pollTimerRemaining |-> pollTimerRemaining, clients |-> clients, replies |-> replies, aborted |-> aborted, writes |-> writes, signals |-> signals, msgBoxes |-> msgBoxes, logs |-> logs, calls |-> calls, frames |-> frames, reports |-> reports, ret |-> "void"]

\* The record a handler call starts from: the outputs of the previous call are gone.
Fresh(d) ==
  [d EXCEPT !.writes = {}, !.signals = {}, !.msgBoxes = {}, !.logs = {}, !.calls = {}, !.frames = <<>>, !.reports = <<>>, !.ret = "void"]

Begin ==
  Fresh(Cur)

\* The part of the record that is the driver's own state (no per-call outputs).
DriverState(d) ==
  [m_modbusClient |-> d.m_modbusClient, m_modbusMode |-> d.m_modbusMode, m_slaveAddress |-> d.m_slaveAddress, m_functionCode |-> d.m_functionCode, m_startAddress |-> d.m_startAddress, m_registerCount |-> d.m_registerCount, m_pollInterval |-> d.m_pollInterval, m_tcpHost |-> d.m_tcpHost, m_serialPortIndex |-> d.m_serialPortIndex, m_deviceNames |-> d.m_deviceNames, pollTimerActive |-> d.pollTimerActive, pollTimerInterval |-> d.pollTimerInterval, pollTimerRemaining |-> d.pollTimerRemaining, clients |-> d.clients, replies |-> d.replies]

Commit(d) ==
  /\ m_modbusClient' = d.m_modbusClient
  /\ m_modbusMode' = d.m_modbusMode
  /\ m_slaveAddress' = d.m_slaveAddress
  /\ m_functionCode' = d.m_functionCode
  /\ m_startAddress' = d.m_startAddress
  /\ m_registerCount' = d.m_registerCount
  /\ m_pollInterval' = d.m_pollInterval
  /\ m_tcpHost' = d.m_tcpHost
  /\ m_serialPortIndex' = d.m_serialPortIndex
  /\ m_deviceNames' = d.m_deviceNames
  /\ pollTimerActive' = d.pollTimerActive
  /\ pollTimerInterval' = d.pollTimerInterval
  /\ pollTimerRemaining' = d.pollTimerRemaining
  /\ clients' = d.clients
  /\ replies' = d.replies
  /\ aborted' = d.aborted
  /\ writes' = d.writes
  /\ signals' = d.signals
  /\ msgBoxes' = d.msgBoxes
  /\ logs' = d.logs
  /\ calls' = d.calls
  /\ frames' = d.frames
  /\ reports' = d.reports

\* ------------------------------------------------------------------------
\* Helpers
\* ------------------------------------------------------------------------

Emit(d, sig) ==
  [d EXCEPT !.signals = @ \cup {sig}]

\* m_settings.setValue(key, value): the store is read by the constructor only,
\* so a call's writes are kept as the keys it wrote (the value is the field just assigned)
Persist(d, key, value) ==
  [d EXCEPT !.writes = @ \cup {key}]

Log(d, line) ==
  [d EXCEPT !.logs = @ \cup {line}]

ShowMessageBox(d, title) ==
  [d EXCEPT !.msgBoxes = @ \cup {title}]

Call(d, c) ==
  [d EXCEPT !.calls = @ \cup {c}]

\* a call on the transport client; the fields a call does not use are 0
ClientCall(name, client) ==
  [call |-> name, client |-> client, type |-> "", start |-> 0, count |-> 0, unit |-> 0]

RemoveAt(s, i) ==
  [j \in 1..(Len(s) - 1) |-> IF j < i THEN s[j] ELSE s[j + 1]]

\* ------------------------------------------------------------------------
\* List accessors and predicates
\* ------------------------------------------------------------------------

serialPortList(d) ==
  IF Len(d.m_deviceNames) > 0 THEN d.m_deviceNames ELSE <<Placeholder>>

\* QSerialPortInfo::availablePorts() without the null entries
validPorts(sys) ==
  sys

isOpen(d) ==
  IF d.m_modbusClient # NoClient
  THEN d.clients[d.m_modbusClient].state = "Connected"
  ELSE FALSE

configurationOk(d) ==
  IF d.m_modbusMode = RTU
  THEN d.m_serialPortIndex > 0
  ELSE d.m_tcpHost # ""

\* ------------------------------------------------------------------------
\* Poll timer
\* ------------------------------------------------------------------------

startPolling_defaultPeriod(d) ==
  IF ~d.pollTimerActive
  THEN Log([d EXCEPT !.pollTimerActive = TRUE, !.pollTimerInterval = DefaultPollInterval, !.pollTimerRemaining = DefaultPollInterval], "polling started")
  ELSE d

startPolling(d) ==
  IF ~d.pollTimerActive
  THEN Log([d EXCEPT !.pollTimerActive = TRUE, !.pollTimerInterval = d.m_pollInterval, !.pollTimerRemaining = d.m_pollInterval], "polling started")
  ELSE d

stopPolling_keepsRunning(d) ==
  d

stopPolling(d) ==
  IF d.pollTimerActive
  THEN Log([d EXCEPT !.pollTimerActive = FALSE, !.pollTimerInterval = 0, !.pollTimerRemaining = 0], "polling stopped")
  ELSE d

\* ------------------------------------------------------------------------
\* close(), open()
\* ------------------------------------------------------------------------

\* The client part of close(): unsubscribe, disconnectDevice() if connected,
\* deleteLater(), forget the pointer.  None of the device's signals reaches
\* the driver any more and no code reads its state again, so the state of a
\* released device is no longer followed ("Released").
releaseClient(d) ==
  IF d.m_modbusClient # NoClient
  THEN LET c == d.m_modbusClient
           wasConnected == d.clients[c].state = "Connected"
           d1 == IF wasConnected THEN Call(d, ClientCall("disconnectDevice", c)) ELSE d
       IN [d1 EXCEPT !.clients[c].subscribed = FALSE,
                     !.clients[c].state = "Released",
                     !.clients[c].life = "deleteLater",
                     !.m_modbusClient = NoClient]
  ELSE d

close_keepsTimer(d) ==
  Emit(releaseClient(d), "configurationChanged")

close_keepsClient(d) ==
  Emit(stopPolling(d), "configurationChanged")

close(d) ==
  Emit(releaseClient(stopPolling(d)), "configurationChanged")

onStateChanged_ignoresDisconnect(d, state) ==
  LET d0 == [d EXCEPT !.reports = Append(@, state)]
  IN IF state = "Connected"
     THEN Emit(startPolling(d0), "configurationChanged")
     ELSE d0

onStateChanged(d, state) ==
  LET d0 == [d EXCEPT !.reports = Append(@, state)]
  IN IF state = "Connected"
     THEN Emit(startPolling(d0), "configurationChanged")
     ELSE IF state = "Unconnected"
          THEN Emit(stopPolling(d0), "configurationChanged")
          ELSE d0

onErrorOccurred_closesSession(d, error) ==
  IF error # "NoError" /\ d.m_modbusClient # NoClient
  THEN close(Emit(Log(d, "Modbus error"), "connectionError"))
  ELSE d

onErrorOccurred(d, error) ==
  IF error # "NoError" /\ d.m_modbusClient # NoClient
  THEN Emit(Log(d, "Modbus error"), "connectionError")
  ELSE d

\* The client c moves to `state` and emits stateChanged(state).
clientStateChanged(d, c, state) ==
  LET d1 == [d EXCEPT !.clients[c].state = state]
  IN IF d.clients[c].subscribed THEN onStateChanged(d1, state) ELSE d1

\* QModbusDevice::connectDevice() on client c.  The outcome is the library's:
\* "fail" (returns false, the device stays unconnected), "connecting" (returns
\* true, the connection completes later) or "connected" (returns true, the
\* device is connected before the call returns).
connectDevice(d, c, outcome) ==
  LET d0 == Call(d, ClientCall("connectDevice", c))
      d1 == clientStateChanged(d0, c, "Connecting")
  IN CASE outcome = "fail" -> clientStateChanged(d1, c, "Unconnected")
       [] outcome = "connected" -> clientStateChanged(d1, c, "Connected")
       [] OTHER -> d1

\* a place for a QModbusClient object that holds none
FreeSlot ==
  [kind |-> "", state |-> "Unconnected", subscribed |-> FALSE, life |-> "free", addr |-> ""]

freeSlots(cl) ==
  {c \in 1..Len(cl) : cl[c].life = "free"}

\* new QModbusRtuSerialClient(this) / new QModbusTcpClient(this): the object
\* takes the first free place, and m_modbusClient points to it
newClient(d, kind, addr) ==
  LET c == CHOOSE f \in freeSlots(d.clients) : \A g \in freeSlots(d.clients) : f <= g
  IN [d EXCEPT !.clients[c] = [kind |-> kind, state |-> "Unconnected", subscribed |-> FALSE, life |-> "held", addr |-> addr],
               !.m_modbusClient = c]

openConnect_keepsFailedClient(d, outcome) ==
  IF d.m_modbusClient = NoClient
  THEN [d EXCEPT !.ret = "false"]
  ELSE LET c == d.m_modbusClient
           d2 == connectDevice([d EXCEPT !.clients[c].subscribed = TRUE], c, outcome)
       IN IF outcome = "fail"
          THEN [ShowMessageBox(d2, "Modbus connect failed") EXCEPT !.ret = "false"]
          ELSE [d2 EXCEPT !.ret = "true"]

\* open() from the point where m_modbusClient is set (lines 251-270)
openConnect(d, outcome) ==
  IF d.m_modbusClient = NoClient
  THEN [d EXCEPT !.ret = "false"]
  ELSE LET c == d.m_modbusClient
           d1 == [d EXCEPT !.clients[c].subscribed = TRUE]
           d2 == connectDevice(d1, c, outcome)
       IN IF outcome = "fail"
          THEN [close(ShowMessageBox(d2, "Modbus connect failed")) EXCEPT !.ret = "false"]
          ELSE [d2 EXCEPT !.ret = "true"]

\* serialPortIndex passes open()'s test against the cached port names
portIndexSelectsPort(d) ==
  d.m_serialPortIndex >= 1 /\ d.m_serialPortIndex < Len(serialPortList(d))

\* open(): `sys` is what availablePorts() returns now, `outcome` what
\* connectDevice() does, `oob` what the build does when validPortList.at()
\* is read out of range ("abort" or "garbage").
open(d, sys, outcome, oob) ==
  LET d1 == close(d)
  IN IF d1.m_modbusMode = RTU
     THEN IF portIndexSelectsPort(d1)
          THEN LET validPortList == validPorts(sys)
                   inRange == d1.m_serialPortIndex - 1 < Len(validPortList)
               IN IF inRange
                  THEN openConnect(newClient(d1, "RTU", validPortList[d1.m_serialPortIndex]), outcome)
                  ELSE IF oob = "abort"
                       THEN [newClient(d1, "RTU", "") EXCEPT !.aborted = TRUE]
                       ELSE openConnect(newClient(d1, "RTU", "<garbage>"), outcome)
          ELSE [ShowMessageBox(d1, "Modbus RTU configuration error") EXCEPT !.ret = "false"]
     ELSE IF d1.m_modbusMode = TCP
          THEN openConnect(newClient(d1, "TCP", d1.m_tcpHost), outcome)
          ELSE openConnect(d1, outcome)

\* ------------------------------------------------------------------------
\* Setters
\* ------------------------------------------------------------------------

setModbusMode(d, mode) ==
  IF d.m_modbusMode # mode
  THEN Emit(Emit(Persist([d EXCEPT !.m_modbusMode = mode], "Modbus_Mode", mode), "modbusModeChanged"), "configurationChanged")
  ELSE d

SlaveAddressOk_noUpperLimit(address) ==
  address >= MinSlaveAddress

SlaveAddressOk(address) ==
  address >= MinSlaveAddress /\ address <= MaxSlaveAddress

setSlaveAddress(d, address) ==
  IF d.m_slaveAddress # address /\ SlaveAddressOk(address)
  THEN Emit(Persist([d EXCEPT !.m_slaveAddress = address], "Modbus_SlaveAddr", address), "slaveAddressChanged")
  ELSE d

setFunctionCode(d, code) ==
  IF d.m_functionCode # code
  THEN LET fc == (code + 1) % UInt8Mod
       IN Emit(Persist([d EXCEPT !.m_functionCode = fc], "Modbus_FuncCode", fc), "functionCodeChanged")
  ELSE d

setStartAddress(d, address) ==
  IF d.m_startAddress # address
  THEN Emit(Persist([d EXCEPT !.m_startAddress = address], "Modbus_StartAddr", address), "startAddressChanged")
  ELSE d

RegisterCountOk_noUpperLimit(count) ==
  count > 0

RegisterCountOk(count) ==
  count > 0 /\ count <= MaxRegisterCount

setRegisterCount(d, count) ==
  IF d.m_registerCount # count /\ RegisterCountOk(count)
  THEN Emit(Persist([d EXCEPT !.m_registerCount = count], "Modbus_RegCount", count), "registerCountChanged")
  ELSE d

PollIntervalOk(interval) ==
  interval >= MinPollInterval

\* m_pollTimer->stop(); m_pollTimer->start(m_pollInterval);
restartPollTimer_keepsOldPeriod(d) ==
  d

restartPollTimer(d) ==
  IF d.pollTimerActive
  THEN [d EXCEPT !.pollTimerInterval = d.m_pollInterval, !.pollTimerRemaining = d.m_pollInterval]
  ELSE d

setPollInterval(d, interval) ==
  IF d.m_pollInterval # interval /\ PollIntervalOk(interval)
  THEN restartPollTimer(Emit(Persist([d EXCEPT !.m_pollInterval = interval], "Modbus_PollInterval", interval), "pollIntervalChanged"))
  ELSE d

setTcpHost(d, host) ==
  IF d.m_tcpHost # host
  THEN Emit(Emit(Persist([d EXCEPT !.m_tcpHost = host], "Modbus_TcpHost", host), "tcpHostChanged"), "configurationChanged")
  ELSE d

setSerialPortIndex(d, index) ==
  IF index < Len(serialPortList(d))
  THEN Emit(Emit([d EXCEPT !.m_serialPortIndex = index], "serialPortIndexChanged"), "configurationChanged")
  ELSE d

refreshSerialDevices(d, sys) ==
  LET names == <<Placeholder>> \o validPorts(sys)
  IN IF d.m_deviceNames # names
     THEN Emit([d EXCEPT !.m_deviceNames = names], "availablePortsChanged")
     ELSE d

\* ------------------------------------------------------------------------
\* Result formatter
\* ------------------------------------------------------------------------

DigitChars ==
  <<"0", "1", "2", "3", "4", "5", "6", "7", "8", "9">>

number_lastDigitOnly(n) ==
  <<DigitChars[(n % 10) + 1]>>

\* QString::number(n) for an unsigned value, as a sequence of characters
RECURSIVE number(_)
number(n) ==
  IF n < 10
  THEN <<DigitChars[n + 1]>>
  ELSE number(n \div 10) \o <<DigitChars[(n % 10) + 1]>>

\* QStringList::join(sep)
RECURSIVE join(_, _)
join(strs, sep) ==
  IF Len(strs) = 0
  THEN <<>>
  ELSE IF Len(strs) = 1
       THEN strs[1]
       ELSE strs[1] \o sep \o join(Tail(strs), sep)

\* QModbusDataUnit::value(i) is a quint16
valueStrings(values) ==
  [i \in 1..Len(values) |-> number(values[i] % (UInt16Max + 1))]

formatModbusData(type, values) ==
  LET result == IF type = "Coils" \/ type = "DiscreteInputs"
                THEN join(valueStrings(values), <<",">>)
                ELSE join(valueStrings(values), <<",">>)
  IN result \o <<"\n">>

\* ------------------------------------------------------------------------
\* Polling
\* ------------------------------------------------------------------------

\* the switch of onPollTimer
registerTypeOf(functionCode) ==
  CASE functionCode = 1 -> "Coils"
    [] functionCode = 2 -> "DiscreteInputs"
    [] functionCode = 3 -> "HoldingRegisters"
    [] functionCode = 4 -> "InputRegisters"
    [] OTHER -> "HoldingRegisters"

\* the switch takes its default branch
registerTypeDefaulted(functionCode) ==
  functionCode \notin {1, 2, 3, 4}

\* A new reply joins the unfinished ones.  Replies are independent objects;
\* the sequence keeps them grouped by client so that one set of replies has
\* one representation.
addReply(rs, r) ==
  LET before == SelectSeq(rs, LAMBDA x : x.client <= r.client)
      after == SelectSeq(rs, LAMBDA x : x.client > r.client)
  IN before \o <<r>> \o after

\* onPollTimer past its guard.  `outcome` is what sendReadRequest() returns:
\* "null", a reply still running ("pending"), or a reply that is already
\* finished, with or without error ("finishedOk", "finishedError").
sendRead(d, outcome) ==
  LET c == d.m_modbusClient
      type == registerTypeOf(d.m_functionCode)
      d1 == Call(d, [call |-> "sendReadRequest", client |-> c, type |-> type, start |-> d.m_startAddress, count |-> d.m_registerCount, unit |-> d.m_slaveAddress])
  IN CASE outcome = "null" -> Log(d1, "Modbus read request failed")
       [] outcome = "pending" -> [d1 EXCEPT !.replies = addReply(@, [client |-> c, type |-> type])]
       [] OTHER -> d1

onPollTimer_ignoresClientState(d, outcome) ==
  IF d.m_modbusClient = NoClient THEN d ELSE sendRead(d, outcome)

onPollTimer(d, outcome) ==
  IF ~isOpen(d) \/ d.m_modbusClient = NoClient
  THEN d
  ELSE sendRead(d, outcome)

onReadReady_emitsOnError(d, i, error, values) ==
  Emit([d EXCEPT !.frames = Append(@, formatModbusData(d.replies[i].type, values)), !.replies = RemoveAt(@, i)], "dataReceived")

\* onReadReady for the reply at position i, which finished with `error` and,
\* without error, carries `values`
onReadReady(d, i, error, values) ==
  LET reply == d.replies[i]
      d1 == IF error = "NoError"
            THEN Emit([d EXCEPT !.frames = Append(@, formatModbusData(reply.type, values))], "dataReceived")
            ELSE Log(d, "Modbus read error")
  IN [d1 EXCEPT !.replies = RemoveAt(@, i)]

\* ------------------------------------------------------------------------
\* Initial state: the driver after its constructor, nothing persisted
\* ------------------------------------------------------------------------

Init ==
  /\ m_modbusClient = NoClient
  /\ m_modbusMode = RTU
  /\ m_slaveAddress = DefaultSlaveAddress
  /\ m_functionCode = DefaultFunctionCode
  /\ m_startAddress = DefaultStartAddress
  /\ m_registerCount = DefaultRegisterCount
  /\ m_pollInterval = DefaultPollInterval
  /\ m_tcpHost = DefaultTcpHost
  /\ m_serialPortIndex = 0
  /\ m_deviceNames = <<>>
  /\ pollTimerActive = FALSE
  /\ pollTimerInterval = 0
  /\ pollTimerRemaining = 0
  /\ clients = [c \in 1..MaxClients |-> FreeSlot]
  /\ replies = <<>>
  /\ availablePorts = <<>>
  /\ aborted = FALSE
  /\ writes = {}
  /\ signals = {}
  /\ msgBoxes = {}
  /\ logs = {}
  /\ calls = {}
  /\ frames = <<>>
  /\ reports = <<>>
  /\ last = [op |-> "constructor", arg |-> 0, how |-> "", ret |-> "void"]
  /\ cfgFailed = FALSE
  /\ linkReport = "none"

\* ------------------------------------------------------------------------
\* Actions
\* ------------------------------------------------------------------------

\* open() is called in RTU mode with no real serial port selected
noRealPortSelected(d) ==
  d.m_modbusMode = RTU /\ (d.m_serialPortIndex = 0 \/ d.m_serialPortIndex >= Len(serialPortList(d)))

RECURSIVE linkAfter(_, _)
linkAfter(reported, before) ==
  IF Len(reported) = 0
  THEN before
  ELSE LET s == reported[Len(reported)]
       IN IF s \in {"Connected", "Unconnected"}
          THEN s
          ELSE linkAfter(SubSeq(reported, 1, Len(reported) - 1), before)

\* One handler call: its result becomes the state, `last` names the call.
Step(result, op, arg, how) ==
  /\ ~aborted
  /\ \E d \in {result} :
       /\ Commit(d)
       /\ last' = [op |-> op, arg |-> arg, how |-> how, ret |-> d.ret]
       /\ linkReport' = linkAfter(d.reports, linkReport)
       /\ cfgFailed' = IF op = "open"
                       THEN IF noRealPortSelected(Cur) THEN TRUE ELSE IF d.ret = "true" THEN FALSE ELSE cfgFailed
                       ELSE cfgFailed
  /\ UNCHANGED availablePorts

ConnectOutcomes ==
  {"fail", "connecting", "connected"}

OobOutcomes ==
  {"abort", "garbage"}

SendOutcomes ==
  {"null", "pending", "finishedOk", "finishedError"}

\* open() would read validPortList.at() out of range
portReadOutOfRange(d, sys) ==
  d.m_modbusMode = RTU /\ portIndexSelectsPort(d) /\ d.m_serialPortIndex - 1 >= Len(validPorts(sys))

Open(outcome, oob) ==
  /\ freeSlots(clients) # {}
  /\ oob = "abort" => portReadOutOfRange(Cur, availablePorts)
  /\ \E d \in {open(Begin, availablePorts, outcome, oob)} :
       Step(d, "open", 0, IF \E c \in d.calls : c.call = "connectDevice" THEN outcome ELSE "none")

Close ==
  Step(close(Begin), "close", 0, "")

SetModbusMode(mode) ==
  Step(setModbusMode(Begin, mode), "setModbusMode", mode, "")

SetSlaveAddress(address) ==
  Step(setSlaveAddress(Begin, address), "setSlaveAddress", address, "")

SetFunctionCode(code) ==
  Step(setFunctionCode(Begin, code), "setFunctionCode", code, "")

SetStartAddress(address) ==
  Step(setStartAddress(Begin, address), "setStartAddress", address, "")

SetRegisterCount(count) ==
  Step(setRegisterCount(Begin, count), "setRegisterCount", count, "")

SetPollInterval(interval) ==
  Step(setPollInterval(Begin, interval), "setPollInterval", interval, "")

SetTcpHost(h) ==
  Step(setTcpHost(Begin, HostInputs[h]), "setTcpHost", h, "")

SetSerialPortIndex(index) ==
  Step(setSerialPortIndex(Begin, index), "setSerialPortIndex", index, "")

\* the 1 Hz tick of Misc::TimerEvents
RefreshSerialDevices ==
  Step(refreshSerialDevices(Begin, availablePorts), "refreshSerialDevices", 0, "")

\* a serial port is plugged in or removed
PortsChange(sys) ==
  /\ ~aborted
  /\ sys # availablePorts
  /\ availablePorts' = sys
  /\ UNCHANGED <<m_modbusClient, m_modbusMode, m_slaveAddress, m_functionCode, m_startAddress, m_registerCount, m_pollInterval, m_tcpHost, m_serialPortIndex, m_deviceNames, pollTimerActive, pollTimerInterval, pollTimerRemaining, clients, replies, aborted, writes, signals, msgBoxes, logs, calls, frames, reports, last, cfgFailed, linkReport>>

\* the moves QModbusDevice makes on its own
nextClientStates(state) ==
  CASE state = "Connecting" -> {"Connected", "Unconnected"}
    [] state = "Connected" -> {"Closing", "Unconnected"}
    [] state = "Closing" -> {"Unconnected"}
    [] OTHER -> {}

\* the held client changes state and emits stateChanged
TransportStateChanged(state) ==
  /\ m_modbusClient # NoClient
  /\ state \in nextClientStates(clients[m_modbusClient].state)
  /\ Step(clientStateChanged(Begin, m_modbusClient, state), "onStateChanged", 0, state)

\* the held client emits errorOccurred
TransportError(error) ==
  /\ m_modbusClient # NoClient
  /\ clients[m_modbusClient].subscribed
  /\ Step(onErrorOccurred(Begin, error), "onErrorOccurred", 0, error)

\* time passes, less than what is left until the poll timer fires
Advance ==
  /\ ~aborted
  /\ pollTimerActive
  /\ pollTimerRemaining > TimeStep
  /\ pollTimerRemaining' = pollTimerRemaining - TimeStep
  /\ UNCHANGED <<m_modbusClient, m_modbusMode, m_slaveAddress, m_functionCode, m_startAddress, m_registerCount, m_pollInterval, m_tcpHost, m_serialPortIndex, m_deviceNames, pollTimerActive, pollTimerInterval, clients, replies, availablePorts, aborted, writes, signals, msgBoxes, logs, calls, frames, reports, last, cfgFailed, linkReport>>

\* the poll timer fires (QTimer::timeout) and is due again one period later
Tick(outcome) ==
  /\ pollTimerActive
  /\ outcome = "pending" => Len(replies) < MaxReplies
  /\ Step(onPollTimer([Begin EXCEPT !.pollTimerRemaining = pollTimerInterval], outcome), "onPollTimer", 0, IF isOpen(Cur) THEN outcome ELSE "skipped")

\* a running reply finishes without error (QModbusReply::finished)
ReadFinished(i, values) ==
  /\ i \in 1..Len(replies)
  /\ Step(onReadReady(Begin, i, "NoError", values), "onReadReady", i, "NoError")

\* a running reply finishes with an error (QModbusReply::finished)
ReadFailed(i, error) ==
  /\ i \in 1..Len(replies)
  /\ error # "NoError"
  /\ Step(onReadReady(Begin, i, error, <<>>), "onReadReady", i, error)

\* the event loop deletes a client on which deleteLater() was called, and
\* with it the replies that are its children
DeferredDelete(c) ==
  /\ ~aborted
  /\ c \in 1..Len(clients)
  /\ clients[c].life = "deleteLater"
  /\ clients' = [clients EXCEPT ![c] = FreeSlot]
  /\ replies' = SelectSeq(replies, LAMBDA r : r.client # c)
  /\ UNCHANGED <<m_modbusClient, m_modbusMode, m_slaveAddress, m_functionCode, m_startAddress, m_registerCount, m_pollInterval, m_tcpHost, m_serialPortIndex, m_deviceNames, pollTimerActive, pollTimerInterval, pollTimerRemaining, availablePorts, aborted, writes, signals, msgBoxes, logs, calls, frames, reports, last, cfgFailed, linkReport>>

\* ------------------------------------------------------------------------
\* Specifications
\* ------------------------------------------------------------------------

\* The connection life cycle: open/close, the transport's events, the poll
\* timer, read replies, and the two settings that decide what open() and
\* the timer do.  No serial port is attached.
Next ==
  \/ \E outcome \in ConnectOutcomes, oob \in OobOutcomes : Open(outcome, oob)
  \/ Close
  \/ \E mode \in {RTU, TCP} : SetModbusMode(mode)
  \/ \E interval \in {99, 200, 1000} : SetPollInterval(interval)
  \/ \E state \in ClientStates : TransportStateChanged(state)
  \/ \E error \in ErrorInputs : TransportError(error)
  \/ Advance
  \/ \E outcome \in SendOutcomes : Tick(outcome)
  \/ \E i \in 1..MaxReplies, values \in ResultSamples : ReadFinished(i, values)
  \/ \E i \in 1..MaxReplies, error \in ErrorInputs : ReadFailed(i, error)
  \/ \E c \in 1..MaxClients : DeferredDelete(c)

Spec ==
  Init /\ [][Next]_vars

\* A single TCP session, with the request parameters changing between ticks.
NextPoll ==
  \/ SetModbusMode(TCP)
  \/ \E outcome \in ConnectOutcomes : freeSlots(clients) = 1..MaxClients /\ Open(outcome, "garbage")
  \/ \E state \in ClientStates : TransportStateChanged(state)
  \/ \E outcome \in SendOutcomes : Tick(outcome)
  \/ \E i \in 1..MaxReplies, values \in ResultSamples : ReadFinished(i, values)
  \/ \E i \in 1..MaxReplies : ReadFailed(i, "TimeoutError")
  \/ SetSlaveAddress(MaxSlaveAddress)
  \/ SetStartAddress(UInt16Max)
  \/ SetRegisterCount(MaxRegisterCount)
  \/ \E code \in {0, 1} : SetFunctionCode(code)

SpecPoll ==
  Init /\ [][NextPoll]_vars

\* The configuration store alone: every setter, with in-range, boundary and
\* out-of-range arguments.
NextSetters ==
  \/ \E mode \in ModeInputs : SetModbusMode(mode)
  \/ \E address \in SlaveAddressInputs : SetSlaveAddress(address)
  \/ \E code \in FunctionCodeInputs : SetFunctionCode(code)
  \/ \E address \in StartAddressInputs : SetStartAddress(address)
  \/ \E count \in RegisterCountInputs : SetRegisterCount(count)
  \/ \E interval \in PollIntervalInputs : SetPollInterval(interval)
  \/ \E h \in 1..Len(HostInputs) : SetTcpHost(h)

SpecSetters ==
  Init /\ [][NextSetters]_vars

\* What decides the outcome of open(): the mode (also one that is neither RTU
\* nor TCP), the TCP host (also the empty one), and what connectDevice() does.
\* No serial port is attached.
NextOpen ==
  \/ \E mode \in ModeInputs : SetModbusMode(mode)
  \/ \E h \in 1..Len(HostInputs) : SetTcpHost(h)
  \/ \E outcome \in ConnectOutcomes : Open(outcome, "garbage")
  \/ Close
  \/ \E state \in ClientStates : TransportStateChanged(state)
  \/ \E c \in 1..MaxClients : DeferredDelete(c)

SpecOpen ==
  Init /\ [][NextOpen]_vars

\* Serial port selection: ports appear and disappear, the 1 Hz refresh
\* re-reads them, the user picks an index, and open() resolves it.
NextPorts ==
  \/ \E sys \in PortLists : PortsChange(sys)
  \/ RefreshSerialDevices
  \/ \E index \in SerialIndexInputs : SetSerialPortIndex(index)
  \/ \E mode \in {RTU, TCP} : SetModbusMode(mode)
  \/ \E oob \in OobOutcomes : freeSlots(clients) = 1..MaxClients /\ Open("fail", oob)
  \/ \E c \in 1..MaxClients : DeferredDelete(c)

SpecPorts ==
  Init /\ [][NextPorts]_vars

\* ------------------------------------------------------------------------
\* Claims
\* ------------------------------------------------------------------------

\* some step of the named handler
OpenStep ==
  /\ last'.op = "open"
  /\ \E outcome \in ConnectOutcomes, oob \in OobOutcomes : Open(outcome, oob)

TickStep ==
  /\ last'.op = "onPollTimer"
  /\ \E outcome \in SendOutcomes : Tick(outcome)

\* no QModbusClient is held by the driver
noClientHeld(cl) ==
  \A c \in 1..Len(cl) : cl[c].life # "held"

sendCalls(cs) ==
  {c \in cs : c.call = "sendReadRequest"}

\* C1: open() in RTU mode with no real serial port selected returns false,
\* shows the configuration error, creates no client and makes no connect
\* call, and no dataReceived is emitted afterwards until an open() succeeds.
C1_RtuOpenWithoutPortIsSilent ==
  [][/\ (noRealPortSelected(Cur) /\ OpenStep)
          => /\ last'.ret = "false"
             /\ "Modbus RTU configuration error" \in msgBoxes'
             /\ m_modbusClient' = NoClient
             /\ noClientHeld(clients')
             /\ \A c \in calls' : c.call # "connectDevice"
     /\ cfgFailed' => "dataReceived" \notin signals']_vars

\* C2: close() raises no error and leaves the driver disconnected (timer
\* inactive, no client held, isOpen() false) from every reachable state, and
\* a second close() right after it changes no driver state.
C2_CloseIdempotent ==
  LET d1 == close(Begin)
      d2 == close(Fresh(d1))
  IN /\ ~d1.pollTimerActive
     /\ d1.m_modbusClient = NoClient
     /\ noClientHeld(d1.clients)
     /\ ~isOpen(d1)
     /\ d1.msgBoxes = {}
     /\ "connectionError" \notin d1.signals
     /\ DriverState(d2) = DriverState(d1)
     /\ d2.msgBoxes = {}
     /\ "connectionError" \notin d2.signals
     /\ last.op = "close" => (~pollTimerActive /\ m_modbusClient = NoClient /\ msgBoxes = {})

\* close() ran on a connected session with a request outstanding
C2_Witness ==
  /\ last.op = "close"
  /\ "polling stopped" \in logs
  /\ \E c \in calls : c.call = "disconnectDevice"
  /\ Len(replies) > 0

ConfigInRange ==
  /\ m_slaveAddress \in 1..247
  /\ m_registerCount \in 1..125
  /\ m_pollInterval >= 100

\* C3: from the built-in defaults, through any setter calls, slaveAddress
\* stays in 1..247, registerCount in 1..125 and pollInterval at least 100;
\* a setter called with an out-of-range value leaves the prior value.
C3_ConfigStaysInRange ==
  /\ ConfigInRange
  /\ [][/\ ConfigInRange'
        /\ \A a \in SlaveAddressInputs : (a \notin 1..247 /\ last'.op = "setSlaveAddress" /\ SetSlaveAddress(a)) => m_slaveAddress' = m_slaveAddress
        /\ \A n \in RegisterCountInputs : (n \notin 1..125 /\ last'.op = "setRegisterCount" /\ SetRegisterCount(n)) => m_registerCount' = m_registerCount
        /\ \A v \in PollIntervalInputs : (v < 100 /\ last'.op = "setPollInterval" /\ SetPollInterval(v)) => m_pollInterval' = m_pollInterval]_vars

\* setRegisterCount(126) was called after 125 had been set, and 125 stayed
C3_Witness ==
  /\ last.op = "setRegisterCount"
  /\ last.arg = 126
  /\ m_registerCount = 125
  /\ m_slaveAddress = 247
  /\ m_pollInterval = 100

\* C4: after any setter calls functionCode is one of the read codes 1..4,
\* so the switch of onPollTimer never takes its default branch.
C4_FunctionCodeIsReadCode ==
  /\ m_functionCode \in {1, 2, 3, 4}
  /\ ~registerTypeDefaulted(m_functionCode)

\* C5: setSlaveAddress(a) with a outside 1..247 keeps slaveAddress, writes
\* no setting, raises no notification and changes nothing else.
C5_SlaveAddressRejectIsNoOp ==
  [][\A a \in SlaveAddressInputs :
       (a \notin 1..247 /\ last'.op = "setSlaveAddress" /\ SetSlaveAddress(a))
         => /\ m_slaveAddress' = m_slaveAddress
            /\ writes' = {}
            /\ signals' = {}
            /\ DriverState(Cur') = DriverState(Cur)]_vars

\* setSlaveAddress(0) or setSlaveAddress(248) was called on a non-default address
C5_Witness ==
  /\ last.op = "setSlaveAddress"
  /\ last.arg \in {0, 248}
  /\ m_slaveAddress = 247

\* C6: a Connected report makes the poll timer active, an Unconnected report
\* makes it inactive, and the timer does not fire between an Unconnected
\* report and the next Connected report.
C6_ReportsDriveTimer ==
  [][/\ \A s \in ClientStates :
          (last'.op = "onStateChanged" /\ last'.how = s /\ TransportStateChanged(s))
            => /\ s = "Connected" => pollTimerActive'
               /\ s = "Unconnected" => ~pollTimerActive'
     /\ (last'.how = "connected" /\ last'.ret = "true" /\ OpenStep) => pollTimerActive'
     /\ linkReport' = "Unconnected" => ~pollTimerActive'
     /\ TickStep => linkReport # "Unconnected"]_vars

\* an Unconnected report stopped a running poll timer
C6_Witness ==
  /\ last.op = "onStateChanged"
  /\ last.how = "Unconnected"
  /\ linkReport = "Unconnected"
  /\ "polling stopped" \in logs
  /\ ~pollTimerActive

\* C7: setPollInterval(v), v >= 100 and v # pollInterval, on an active
\* timer re-arms it with period v, due one period v later; on an inactive
\* timer it does not start it.
C7_IntervalChangeRestartsTimer ==
  [][\A v \in PollIntervalInputs \cup {DefaultPollInterval} :
       (v >= 100 /\ v # m_pollInterval /\ last'.op = "setPollInterval" /\ SetPollInterval(v))
         => /\ m_pollInterval' = v
            /\ pollTimerActive
                 => (pollTimerActive' /\ pollTimerInterval' = v /\ pollTimerRemaining' = v)
            /\ ~pollTimerActive => ~pollTimerActive']_vars

\* the interval was changed while the timer was running
C7_Witness ==
  /\ last.op = "setPollInterval"
  /\ "pollIntervalChanged" \in signals
  /\ pollTimerActive
  /\ pollTimerInterval = last.arg
  /\ pollTimerRemaining = last.arg

\* the driver's state apart from the timer's own countdown
AllButCountdown(d) ==
  [DriverState(d) EXCEPT !.pollTimerRemaining = 0]

\* C8: a read request is sent only by a timer tick that finds the held
\* client Connected, at most one per tick, for registerCount values from
\* startAddress against slaveAddress; a tick while not connected sends
\* nothing, emits nothing and changes no state.
C8_ReadsOnlyFromConnectedTick ==
  [][/\ sendCalls(calls') # {}
          => \/ UNCHANGED <<calls, last>>
             \/ /\ TickStep
                /\ isOpen(Cur)
                /\ sendCalls(calls') = {[call |-> "sendReadRequest", client |-> m_modbusClient, type |-> registerTypeOf(m_functionCode), start |-> m_startAddress, count |-> m_registerCount, unit |-> m_slaveAddress]}
     /\ (~isOpen(Cur) /\ TickStep)
          => /\ calls' = {}
             /\ signals' = {}
             /\ logs' = {}
             /\ msgBoxes' = {}
             /\ frames' = <<>>
             /\ writes' = {}
             /\ AllButCountdown(Cur') = AllButCountdown(Cur)]_vars

\* a tick sent a request, and a tick was skipped while a client was held
C8_Witness ==
  /\ last.op = "onPollTimer"
  /\ last.how = "skipped"
  /\ m_modbusClient # NoClient
  /\ pollTimerActive
  /\ Len(replies) > 0

\* C9: every accepted read request that completes without error produces
\* exactly one dataReceived with the formatted frame, also when the reply is
\* already finished when sendReadRequest returns.
C9_EverySuccessfulReadIsDelivered ==
  [][/\ (last'.op = "onPollTimer" /\ isOpen(Cur) /\ Tick("finishedOk"))
          => ("dataReceived" \in signals' /\ Len(frames') = 1)
     /\ \A i \in 1..MaxReplies, values \in ResultSamples :
          (last'.op = "onReadReady" /\ last'.arg = i /\ last'.how = "NoError" /\ ReadFinished(i, values))
            => /\ "dataReceived" \in signals'
               /\ frames' = <<formatModbusData(replies[i].type, values)>>
     /\ \A i \in 1..MaxReplies :
          (last'.op = "onReadReady" /\ last'.arg = i /\ last'.how = "NoError" /\ ReadFinished(i, <<1, 2, 3>>)) => frames' = << <<"1", ",", "2", ",", "3", "\n">> >>]_vars

C11_TcpOpenWithEmptyHostFails ==
  [][(m_modbusMode = TCP /\ m_tcpHost = "" /\ OpenStep)
       => /\ last'.ret = "false"
          /\ \A c \in calls' : c.call # "connectDevice"]_vars

\* what a call of open() did, as far as a caller or the transport can tell
openEffect(d) ==
  [ret |-> d.ret, msgBoxes |-> d.msgBoxes, signals |-> d.signals, logs |-> d.logs,
   calls |-> {c.call : c \in d.calls}, reports |-> d.reports,
   client |-> IF d.m_modbusClient = NoClient THEN FreeSlot ELSE d.clients[d.m_modbusClient],
   pollTimerActive |-> d.pollTimerActive, pollTimerInterval |-> d.pollTimerInterval]

\* the driver with its configuration, as constructed: no client object and no reply exists
freshDriver(d) ==
  [d EXCEPT !.m_modbusClient = NoClient, !.clients = [c \in 1..MaxClients |-> FreeSlot], !.replies = <<>>,
            !.pollTimerActive = FALSE, !.pollTimerInterval = 0, !.pollTimerRemaining = 0]

\* C12: whenever open() returns false the driver holds no client, no client
\* is subscribed, the poll timer is inactive and isOpen() is false; a failed
\* connect call shows the transport's message; and the next open() does
\* what it would do on a fresh disconnected driver.
C12_FailedOpenLeavesDriverClean ==
  [][(last'.op = "open" /\ last'.ret = "false" /\ OpenStep)
       => /\ m_modbusClient' = NoClient
          /\ noClientHeld(clients')
          /\ \A c \in 1..MaxClients : ~clients'[c].subscribed
          /\ ~pollTimerActive'
          /\ ~isOpen(Cur')
          /\ last'.how = "fail" => "Modbus connect failed" \in msgBoxes'
          /\ freeSlots(clients') # {}
               => \A outcome \in ConnectOutcomes :
                    openEffect(open(Fresh(Cur'), availablePorts', outcome, "garbage"))
                      = openEffect(open(Fresh(freshDriver(Cur')), availablePorts', outcome, "garbage"))]_vars

\* open() on a polling session failed in connectDevice()
C12_Witness ==
  /\ last.op = "open"
  /\ last.ret = "false"
  /\ last.how = "fail"
  /\ "polling stopped" \in logs
  /\ "Modbus connect failed" \in msgBoxes
  /\ freeSlots(clients) # {}

\* the reply at position i belongs to a client the driver has released
replyOutlivedConnection(i) ==
  i \in 1..Len(replies) /\ replies[i].client # m_modbusClient

\* C13: a read completion delivered after close() (or a later open()) has
\* released the client it was sent on emits neither dataReceived nor
\* connectionError.
C13_LateCompletionHasNoEffect ==
  [][\A i \in 1..MaxReplies :
       (last'.op = "onReadReady" /\ last'.arg = i /\ replyOutlivedConnection(i)
          /\ \/ \E values \in ResultSamples : ReadFinished(i, values)
             \/ \E error \in ErrorInputs : ReadFailed(i, error))
         => /\ "dataReceived" \notin signals'
            /\ "connectionError" \notin signals'
            /\ frames' = <<>>]_vars

\* the read requests in flight on the client the driver holds
inFlight ==
  {i \in 1..Len(replies) : replies[i].client = m_modbusClient}

\* C14: at most one read request is in flight: a tick does not send a new
\* read while the reply of an earlier tick has not finished.
C14_AtMostOneReadInFlight ==
  [][/\ Cardinality(inFlight') <= 1
     /\ (inFlight # {} /\ TickStep) => sendCalls(calls') = {}]_vars

\* C15: a transport error reported on the held client emits connectionError
\* and nothing else: the client stays held and subscribed, no call is made
\* on it, the timer is neither stopped nor restarted; the timer stops only
\* on an Unconnected report or in close() (also the one open() makes).
C15_TransportErrorOnlyReports ==
  [][/\ (last'.op = "onErrorOccurred" /\ last'.how = "TimeoutError" /\ TransportError("TimeoutError"))
          => /\ signals' = {"connectionError"}
             /\ logs' = {"Modbus error"}
             /\ calls' = {}
             /\ msgBoxes' = {}
             /\ frames' = <<>>
             /\ DriverState(Cur') = DriverState(Cur)
     /\ (pollTimerActive /\ ~pollTimerActive')
          => \/ last'.op = "onStateChanged" /\ last'.how = "Unconnected"
             \/ last'.op = "close"
             \/ last'.op = "open"]_vars

\* a transport error was reported while the driver was polling with a read outstanding
C15_Witness ==
  /\ last.op = "onErrorOccurred"
  /\ last.how = "TimeoutError"
  /\ "connectionError" \in signals
  /\ pollTimerActive
  /\ pollTimerRemaining < pollTimerInterval
  /\ inFlight # {}

\* the client objects that are held by the driver or subscribed to its handlers
attachedClients(cl) ==
  {c \in 1..Len(cl) : cl[c].life = "held" \/ cl[c].subscribed}

\* C16: after any open() and close() calls at most one client is held and
\* subscribed, and it is the one m_modbusClient points to; open() on a
\* driver that holds a client has disconnected it (if it was connected),
\* unsubscribed and released it and stopped the timer, and the client it
\* creates is another object.
C16_OpenClosesFirst ==
  [][/\ attachedClients(clients') \subseteq {m_modbusClient'}
     /\ (m_modbusClient # NoClient /\ OpenStep)
          => /\ clients'[m_modbusClient].life = "deleteLater"
             /\ ~clients'[m_modbusClient].subscribed
             /\ m_modbusClient' # m_modbusClient
             /\ isOpen(Cur) => ClientCall("disconnectDevice", m_modbusClient) \in calls'
             /\ pollTimerActive => "polling stopped" \in logs'
             /\ pollTimerActive' => (last'.how = "connected" /\ "polling started" \in logs')]_vars

\* open() was called on a connected, polling session and connected a second client
C16_Witness ==
  /\ last.op = "open"
  /\ last.ret = "true"
  /\ \E c \in calls : c.call = "disconnectDevice"
  /\ "polling stopped" \in logs
  /\ m_modbusClient # NoClient
  /\ \E c \in 1..MaxClients : clients[c].life = "deleteLater"

\* C17: through setModbusMode with arbitrary arguments the mode stays RTU
\* or TCP, and open() never returns false without having created a client
\* and without showing an error.
C17_ModeIsRtuOrTcp ==
  [][/\ m_modbusMode' \in {RTU, TCP}
     /\ (last'.op = "open" /\ last'.ret = "false" /\ OpenStep)
          => \/ msgBoxes' # {}
             \/ \E c \in calls' : c.call = "connectDevice"]_vars

\* C18: configurationOk() returns true in RTU mode only if serialPortIndex
\* is at least 1 and below the number of entries of the serial port list,
\* and in TCP mode only if the host is not empty; setSerialPortIndex ignores
\* an index that is not below the number of entries.
C18_ConfigurationOkMeansUsable ==
  [][/\ (m_modbusMode' = RTU /\ configurationOk(Cur'))
          => (m_serialPortIndex' >= 1 /\ m_serialPortIndex' < Len(serialPortList(Cur')))
     /\ (m_modbusMode' = TCP /\ configurationOk(Cur')) => m_tcpHost' # ""
     /\ \A index \in SerialIndexInputs :
          (index >= Len(serialPortList(Cur)) /\ last'.op = "setSerialPortIndex" /\ last'.arg = index /\ SetSerialPortIndex(index))
            => (m_serialPortIndex' = m_serialPortIndex /\ signals' = {})]_vars

\* the number a decimal digit stands for
digitValue(ch) ==
  CHOOSE k \in 0..9 : DigitChars[k + 1] = ch

\* reading back a decimal rendering
RECURSIVE decimal(_)
decimal(chars) ==
  IF Len(chars) = 0
  THEN 0
  ELSE 10 * decimal(SubSeq(chars, 1, Len(chars) - 1)) + digitValue(chars[Len(chars)])

\* the pieces of a text between its commas
RECURSIVE fields(_)
fields(chars) ==
  IF \A i \in 1..Len(chars) : chars[i] # ","
  THEN <<chars>>
  ELSE LET k == CHOOSE i \in 1..Len(chars) : chars[i] = "," /\ \A j \in 1..(i - 1) : chars[j] # ","
       IN <<SubSeq(chars, 1, k - 1)>> \o fields(SubSeq(chars, k + 1, Len(chars)))

\* a decimal rendering as QString::number gives it: digits only, no leading zero
isDecimal(chars) ==
  /\ Len(chars) >= 1
  /\ \A i \in 1..Len(chars) : \E k \in 1..10 : DigitChars[k] = chars[i]
  /\ Len(chars) > 1 => chars[1] # "0"

\* `frame` is the values in order, in decimal, joined by ',' and followed by one newline
rendersValues(frame, values) ==
  /\ Len(frame) >= 1
  /\ frame[Len(frame)] = "\n"
  /\ LET body == SubSeq(frame, 1, Len(frame) - 1)
     IN IF Len(values) = 0
        THEN body = <<>>
        ELSE /\ Len(fields(body)) = Len(values)
             /\ \A i \in 1..Len(values) :
                  isDecimal(fields(body)[i]) /\ decimal(fields(body)[i]) = values[i]

\* C19: the formatter's output is the decimal renderings of the values in
\* order, joined by ',' and followed by exactly one newline, and is the same
\* for the coil types and the register types: [1,0,1] gives "1,0,1\n" and
\* [10,0,65535] gives "10,0,65535\n".
C19_FormatterRendersValues ==
  [][\A i \in 1..MaxReplies, values \in ResultSamples :
       (last'.op = "onReadReady" /\ last'.arg = i /\ last'.how = "NoError" /\ ReadFinished(i, values))
         => /\ Len(frames') = 1
            /\ rendersValues(frames'[1], values)
            /\ frames'[1] = formatModbusData("Coils", values)
            /\ frames'[1] = formatModbusData("DiscreteInputs", values)
            /\ frames'[1] = formatModbusData("HoldingRegisters", values)
            /\ frames'[1] = formatModbusData("InputRegisters", values)
            /\ values = <<1, 0, 1>> => frames'[1] = <<"1", ",", "0", ",", "1", "\n">>
            /\ values = <<10, 0, 65535>>
                 => frames'[1] = <<"1", "0", ",", "0", ",", "6", "5", "5", "3", "5", "\n">>]_vars

\* a read of discrete inputs delivered the frame of [10,0,65535]
C19_Witness ==
  /\ last.op = "onReadReady"
  /\ last.how = "NoError"
  /\ m_functionCode = 2
  /\ frames = << <<"1", "0", ",", "0", ",", "6", "5", "5", "3", "5", "\n">> >>

\* C20: for every list index i in 0..3 and every prior functionCode,
\* setFunctionCode(i) leaves functionCode equal to i+1, and raises
\* functionCodeChanged exactly when the stored value changed.
C20_FunctionCodeFromListIndex ==
  [][\A i \in 0..3 :
       (last'.op = "setFunctionCode" /\ last'.arg = i /\ SetFunctionCode(i))
         => /\ m_functionCode' = i + 1
            /\ "functionCodeChanged" \in signals' <=> m_functionCode' # m_functionCode]_vars

\* the entry of the serial port list the user selected
selectedPortName(d) ==
  serialPortList(d)[d.m_serialPortIndex + 1]

\* C21: whenever open() in RTU mode passes its test against the cached port
\* names, position serialPortIndex-1 of the freshly enumerated port list
\* exists, and the port open() resolves is the one whose name was selected.
C21_OpenReadsPortListInRange ==
  [][(m_modbusMode = RTU /\ portIndexSelectsPort(Cur) /\ OpenStep)
       => /\ m_serialPortIndex - 1 < Len(validPorts(availablePorts))
          /\ ~aborted'
          /\ \A c \in calls' :
               c.call = "connectDevice" => clients'[c.client].addr = selectedPortName(Cur)]_vars

\* C22: whenever the poll timer is active its period is the current
\* pollInterval, and its next timeout is at most one period away.
C22_TimerPeriodIsPollInterval ==
  pollTimerActive
    => /\ pollTimerInterval = m_pollInterval
       /\ pollTimerRemaining \in 1..m_pollInterval

\* the timer was started by a Connected report with a pollInterval set before the session
C22_Witness ==
  /\ pollTimerActive
  /\ last.op = "onStateChanged"
  /\ last.how = "Connected"
  /\ "polling started" \in logs
  /\ m_pollInterval = 200
  /\ pollTimerInterval = 200

\* C23: whenever the poll timer is active a client is held and subscribed
\* to the driver's handlers; the timer is started only by a Connected report
\* of the held client (also one made during connectDevice()), and a step
\* that releases the client leaves the timer stopped.
C23_TimerRunsOnlyForHeldClient ==
  [][/\ pollTimerActive'
          => /\ m_modbusClient' # NoClient
             /\ clients'[m_modbusClient'].life = "held"
             /\ clients'[m_modbusClient'].subscribed
     /\ "polling started" \in logs'
          => /\ m_modbusClient' # NoClient
             /\ reports' # <<>>
             /\ reports'[Len(reports')] = "Connected"
             /\ \/ last'.op = "onStateChanged" /\ last'.how = "Connected" /\ m_modbusClient' = m_modbusClient
                \/ last'.op = "open" /\ last'.how = "connected"
     /\ (m_modbusClient # NoClient /\ m_modbusClient' # m_modbusClient /\ pollTimerActive)
          => "polling stopped" \in logs']_vars

\* close() stopped the timer of a polling session and released its client
C23_Witness ==
  /\ last.op = "close"
  /\ "polling stopped" \in logs
  /\ ~pollTimerActive
  /\ m_modbusClient = NoClient
  /\ \E c \in 1..MaxClients : clients[c].life = "deleteLater" /\ ~clients[c].subscribed

====
